---- MODULE Spec2Model ----
(***************************************************************************)
(* The download manager queue of src/backend/hyperplay/games.ts: the       *)
(* persisted pending queue and Finished history (downloadManager store),   *)
(* the module-level queueState flag, and the async processing loop         *)
(* initQueue with its two suspension points (await getInstallInfo, await   *)
(* of the dispatched runner operation).                                    *)
(*                                                                         *)
(* JavaScript runs one synchronous segment at a time.  Every action below  *)
(* is one such segment.  A loop whose pc is "top" stands at the `while     *)
(* (element)` test inside a running segment: no handler can interleave     *)
(* there, so every other action is disabled until the segment reaches an   *)
(* await or leaves the loop.                                               *)
(***************************************************************************)
EXTENDS Integers, Sequences, FiniteSets, TLC

\* Largest number of rewards passed to claimRewards.
MaxRewards == 2

\* Number of addGameToLibrary calls in a run.
MaxCalls == 3

\* Number of initQueue invocations that can be alive at once in the model.
MaxLoops == 2

\* Number of tasks addToQueue accepts in a run.
MaxAdds == 3

\* addToQueue calls in a run in which initQueue is also called from outside.
MaxAddsInit == 2

\* addToQueue calls in a run in which the process can stop and start again.
MaxAddsRestart == 2

\* addToQueue calls in a run over every runner and operation type.
MaxAddsDispatch == 2

\* appName values callers pass; "" is the empty string, which addToQueue accepts.
AppNames == {"G1", "G2", ""}

\* `runner === 'gog' || runner === 'legendary'`
ManifestRunners == {"gog", "legendary"}

\* type DMStatus = 'done' | 'error' | 'abort'
DMStatus == {"done", "error", "abort"}

\* A DMQueueElement as the caller builds it: size, startTime and endTime are
\* filled in by the loop.  Date.now() is abstracted to "set".
Element(a, r, t) ==
    [appName |-> a, runner |-> r, type |-> t,
     size |-> "unset", startTime |-> "unset", endTime |-> "unset"]

\* null / undefined element
NoElement == Element("null", "null", "null")

\* (runner, type) pairs the model's callers enqueue.
InputKinds ==
    {<<"gog", "install">>, <<"hyperplay", "download">>, <<"sideload", "install">>}

Inputs == {Element(a, k[1], k[2]) : a \in AppNames, k \in InputKinds}

VARIABLES
    queue,       \* downloadManager 'queue' (persisted pending queue)
    hasQueue,    \* downloadManager.has('queue')
    finished,    \* downloadManager 'finished' (Finished history)
    queueState,  \* let queueState: 'idle' | 'running'
    loop,        \* the live initQueue invocations: pc, element, queuedElements, call
    escaped,     \* an exception left initQueue (its promise was rejected)
    log,         \* history: the appNames addToQueue accepted, in call order
    owed,        \* history: appNames enqueued into the idle manager, not retired yet
    last,        \* history: the handler or loop step that ran last
    stale,       \* history: a changedDMQueueInformation event was sent whose
                 \* payload was not the store's queue at that moment
    library,     \* hpLibraryStore 'games': the app_name of each game, in order
    adding,      \* the addGameToLibrary calls: pc, appId, currentLibrary
    claim,       \* the claimRewards call: pc, rewards, index of reward_i, wallet
    tracked,     \* the window.api.trackEvent calls of claimRewards, in order
    completed    \* history: the indexes of the rewards whose claim was carried out

queueVars ==
    <<queue, hasQueue, finished, queueState, loop, escaped, log, owed, last, stale>>

libraryVars == <<library, adding>>

questVars == <<claim, tracked, completed>>

\* What the download manager's handlers never touch
notQueueVars == <<libraryVars, questVars>>

vars == <<queueVars, libraryVars, questVars>>

Loops == 1..MaxLoops

OffLoop == [pc |-> "off", element |-> NoElement, queuedElements |-> <<>>, call |-> "none"]

Names(s) == {s[i].appName : i \in DOMAIN s}

\* elements.findIndex((el) => el.params.appName === appName); 0 stands for -1
FindIndex(s, a) ==
    IF \E i \in DOMAIN s : s[i].appName = a
    THEN CHOOSE i \in DOMAIN s :
             s[i].appName = a /\ \A j \in DOMAIN s : s[j].appName = a => i <= j
    ELSE 0

\* elements.splice(index, 1)
Splice(s, i) == [j \in 1..(Len(s) - 1) |-> IF j < i THEN s[j] ELSE s[j + 1]]

\* getFirstQueueElement: elements.at(0) ?? null
GetFirstQueueElement(q) == IF q = <<>> THEN NoElement ELSE Head(q)

\* addToFinished without the findIndex branch: every retired task is pushed
AddToFinishedAlwaysPush(fin, element, status) ==
    Append(fin, [appName |-> element.appName, runner |-> element.runner,
                 type |-> element.type, size |-> element.size,
                 startTime |-> element.startTime, endTime |-> element.endTime,
                 status |-> status])

\* addToFinished: overwrite the entry of the same appName with
\* `status ?? 'abort'`, else push the entry with `status` as it is;
\* "undefined" stands for a status the operation did not return
AddToFinished(fin, element, status) ==
    LET i == FindIndex(fin, element.appName)
        entry == [appName |-> element.appName, runner |-> element.runner,
                  type |-> element.type, size |-> element.size,
                  startTime |-> element.startTime, endTime |-> element.endTime,
                  status |-> status]
    IN  IF i > 0
        THEN [fin EXCEPT ![i] =
                 [entry EXCEPT !.status = IF status = "undefined" THEN "abort" ELSE status]]
        ELSE Append(fin, entry)

\* addToQueue without the findIndex branch: every task is pushed
AddOrReplaceAlwaysPush(q, element) == Append(q, element)

\* addToQueue dropping the entry found and pushing the new task at the tail
AddOrReplaceMoveToTail(q, element) ==
    Append(SelectSeq(q, LAMBDA el : el.appName # element.appName), element)

\* addToQueue lines 146-156: replace at the index found, else push
AddOrReplace(q, element) ==
    LET i == FindIndex(q, element.appName)
    IN  IF i > 0 THEN [q EXCEPT ![i] = element] ELSE Append(q, element)

\* removeFromQueue splicing without the `index !== -1` test: splice(-1, 1)
\* takes the last element out
RemoveFromStoreNoIndexTest(q, has, appName) ==
    IF appName # "" /\ has
    THEN LET i == FindIndex(q, appName)
         IN  IF i > 0 THEN Splice(q, i)
             ELSE IF q = <<>> THEN q ELSE SubSeq(q, 1, Len(q) - 1)
    ELSE q

\* removeFromQueue: the store's queue after the call
RemoveFromStore(q, has, appName) ==
    IF appName # "" /\ has
    THEN LET i == FindIndex(q, appName)
         IN  IF i > 0 THEN Splice(q, i) ELSE q
    ELSE q

\* queuedElements[0] = element (line 113)
WriteBack(queuedElements, element) ==
    IF queuedElements = <<>> THEN <<element>>
    ELSE [queuedElements EXCEPT ![1] = element]

\* The operation the ternary of lines 116-120 awaits; "none" is { status: 'error' }
DispatchHyperplayDownloadOnly(element) ==
    IF element.runner \in ManifestRunners /\ element.type = "install" THEN "install"
    ELSE IF element.runner \in ManifestRunners /\ element.type = "update" THEN "update"
    ELSE IF element.runner = "hyperplay" /\ element.type = "download" THEN "download"
    ELSE "none"

Dispatch(element) ==
    IF element.runner \in ManifestRunners /\ element.type = "install" THEN "install"
    ELSE IF element.runner \in ManifestRunners /\ element.type = "update" THEN "update"
    ELSE IF element.runner = "hyperplay" THEN "download"
    ELSE "none"

\* sendFrontendMessage('changedDMQueueInformation', payload), with the
\* store's queue at the moment the event is sent
Event(payload, stored) == [payload |-> payload, queue |-> stored]

\* The history of the events `evs` that a step sends
Sent(evs) ==
    stale' = (stale \/ \E i \in DOMAIN evs : evs[i].payload # evs[i].queue)

\* removeFromQueue sending the array as it was read, before the splice
RemovePayloadAsRead(q, appName) == q

\* removeFromQueue lines 173-193: the `elements` array it sends, spliced when
\* the appName was found
RemovePayload(q, appName) ==
    LET i == FindIndex(q, appName) IN IF i > 0 THEN Splice(q, i) ELSE q

Busy == \E l \in Loops : loop[l].pc = "top"

FreeLoop == CHOOSE l \in Loops : loop[l].pc = "off" /\ \A k \in Loops : loop[k].pc = "off" => l <= k

Init ==
    /\ queue = <<>>
    /\ hasQueue = FALSE
    /\ finished = <<>>
    /\ queueState = "idle"
    /\ loop = [l \in Loops |-> OffLoop]
    /\ escaped = FALSE
    /\ log = <<>>
    /\ owed = {}
    /\ last = [op |-> "init", appName |-> "null", status |-> "null"]
    /\ stale = FALSE
    /\ claim = [pc |-> "idle", rewards |-> <<>>, i |-> 0, wallet |-> FALSE,
                quest |-> FALSE]
    /\ tracked = <<>>
    /\ completed = {}
    /\ library = <<>>
    /\ adding = <<>>

\* initQueue lines 94-95, run on the store content q: the flag, and the loop
\* entered at `while (element)` when there is a head.
StartLoop(q) ==
    LET element == GetFirstQueueElement(q)
    IN  IF element = NoElement
        THEN /\ queueState' = "idle"
             /\ loop' = loop
        ELSE /\ queueState' = "running"
             /\ loop' = [loop EXCEPT ![FreeLoop] =
                            [pc |-> "top", element |-> element, queuedElements |-> <<>>,
                             call |-> "none"]]

\* lines 122-127: endTime, addToFinished, removeFromQueue, re-read the head.
\* q is the store's queue at line 122; the 'queue' key exists by then (the
\* element was read from it and line 114 has set it).
Retire(l, element, status, q, op) ==
    LET done == [element EXCEPT !.endTime = "set"]
        rest == RemoveFromStore(q, TRUE, done.appName)
        next == GetFirstQueueElement(rest)
    IN  /\ finished' = AddToFinished(finished, done, status)
        /\ queue' = rest
        /\ hasQueue' = TRUE
        /\ IF next = NoElement
           THEN /\ queueState' = "idle"
                /\ loop' = [loop EXCEPT ![l] = OffLoop]
           ELSE /\ queueState' = queueState
                /\ loop' = [loop EXCEPT ![l] =
                               [pc |-> "top", element |-> next, queuedElements |-> <<>>,
                                call |-> "none"]]
        /\ owed' = owed \ {done.appName}
        /\ last' = [op |-> op, appName |-> done.appName, status |-> status]

\* lines 112-120: startTime, write the head back, dispatch
StartAndDispatch(l, element, queuedElements) ==
    LET started == [element EXCEPT !.startTime = "set"]
        q == WriteBack(queuedElements, started)
    IN  IF Dispatch(started) # "none"
        THEN /\ queue' = q
             /\ hasQueue' = TRUE
             /\ loop' = [loop EXCEPT ![l] =
                            [pc |-> "awaitOp", element |-> started, queuedElements |-> <<>>,
                             call |-> Dispatch(started)]]
             /\ last' = [op |-> "dispatch", appName |-> started.appName, status |-> "null"]
             /\ UNCHANGED <<finished, queueState, owed>>
        ELSE Retire(l, started, "error", q, "unsupported")

\* addToQueue that also drops the Finished entry of the appName it enqueues
AddToQueueResettingFinished(element) ==
    /\ ~Busy
    /\ IF element = NoElement
       THEN /\ last' = [op |-> "addRejected", appName |-> "null", status |-> "null"]
            /\ UNCHANGED <<queue, hasQueue, finished, queueState, loop, escaped, log, owed>>
       ELSE /\ Len(log) < MaxAdds
            /\ log' = Append(log, element.appName)
            /\ owed' = IF queueState = "idle" THEN owed \cup {element.appName} ELSE owed
            /\ queueState = "idle" => \E l \in Loops : loop[l].pc = "off"
            /\ queue' = AddOrReplace(queue, element)
            /\ hasQueue' = TRUE
            /\ IF queueState = "idle"
               THEN StartLoop(AddOrReplace(queue, element))
               ELSE UNCHANGED <<queueState, loop>>
            /\ last' = [op |-> IF element.appName \in Names(queue)
                                THEN "addReplace" ELSE "addAppend",
                         appName |-> element.appName, status |-> "null"]
            /\ finished' = SelectSeq(finished, LAMBDA el : el.appName # element.appName)
            /\ UNCHANGED escaped
    /\ UNCHANGED notQueueVars
    /\ Sent(IF element = NoElement
            THEN <<>>
            ELSE <<Event(AddOrReplace(queue, element), queue')>>)

\* addToQueue(element), up to and including lines 94-95 of the initQueue() it
\* calls when idle; the loop body of that call is the LoopTop step that must
\* follow at once (Busy).  A missing element is logged and changes nothing.
AddToQueue(element) ==
    /\ ~Busy
    /\ IF element = NoElement
       THEN /\ last' = [op |-> "addRejected", appName |-> "null", status |-> "null"]
            /\ UNCHANGED <<queue, hasQueue, finished, queueState, loop, escaped, log, owed>>
       ELSE /\ Len(log) < MaxAdds
            /\ log' = Append(log, element.appName)
            /\ owed' = IF queueState = "idle" THEN owed \cup {element.appName} ELSE owed
            /\ queueState = "idle" => \E l \in Loops : loop[l].pc = "off"
            /\ queue' = AddOrReplace(queue, element)
            /\ hasQueue' = TRUE
            /\ IF queueState = "idle"
               THEN StartLoop(AddOrReplace(queue, element))
               ELSE UNCHANGED <<queueState, loop>>
            /\ last' = [op |-> IF element.appName \in Names(queue)
                                THEN "addReplace" ELSE "addAppend",
                         appName |-> element.appName, status |-> "null"]
            /\ UNCHANGED <<finished, escaped>>
    /\ UNCHANGED notQueueVars
    /\ Sent(IF element = NoElement
            THEN <<>>
            ELSE <<Event(AddOrReplace(queue, element), queue')>>)

\* removeFromQueue(appName), called from outside the loop
RemoveFromQueue(appName) ==
    /\ ~Busy
    /\ UNCHANGED <<log, owed>>
    /\ queue' = RemoveFromStore(queue, hasQueue, appName)
    /\ last' = [op |-> IF RemoveFromStore(queue, hasQueue, appName) # queue
                        THEN "removeFound" ELSE "removeAbsent",
                 appName |-> "null", status |-> "null"]
    /\ UNCHANGED <<hasQueue, finished, queueState, loop, escaped>>
    /\ UNCHANGED notQueueVars
    /\ Sent(IF appName # "" /\ hasQueue
            THEN <<Event(RemovePayload(queue, appName), queue')>>
            ELSE <<>>)

\* the exported initQueue(), called from outside addToQueue
InitQueue ==
    /\ ~Busy
    /\ UNCHANGED <<log, owed>>
    /\ \E l \in Loops : loop[l].pc = "off"
    /\ StartLoop(queue)
    /\ last' = [op |-> "initQueue", appName |-> "null", status |-> "null"]
    /\ UNCHANGED <<queue, hasQueue, finished, escaped>>
    /\ UNCHANGED notQueueVars
    /\ Sent(<<>>)

\* The event of the removeFromQueue(appName) call of line 124 on the store
\* `q`: none for an empty appName (line 172)
RemoveEvents(q, appName) ==
    IF appName # "" THEN <<Event(RemovePayload(q, appName), queue')>> ELSE <<>>

\* The events of lines 112-124 after the size is known: none when an operation
\* is dispatched, that of the removal when the pair is unsupported
RetireEvents(element, size, queuedElements) ==
    IF Dispatch(element) # "none"
    THEN <<>>
    ELSE RemoveEvents(WriteBack(queuedElements,
                                [element EXCEPT !.size = size, !.startTime = "set"]),
                      element.appName)

\* one pass of `while (element)` from line 98 to the first await
LoopTop(l) ==
    /\ loop[l].pc = "top"
    /\ LET element == loop[l].element
           queuedElements == queue
       IN  IF element.runner \in ManifestRunners
           THEN /\ loop' = [loop EXCEPT ![l] =
                               [pc |-> "awaitInfo", element |-> element,
                                queuedElements |-> queuedElements,
                                call |-> "getInstallInfo"]]
                /\ last' = [op |-> "getInstallInfo", appName |-> element.appName,
                            status |-> "null"]
                /\ UNCHANGED <<queue, hasQueue, finished, queueState, owed>>
           ELSE StartAndDispatch(l, [element EXCEPT !.size = "?? MB"], queuedElements)
    /\ UNCHANGED <<escaped, log>>
    /\ UNCHANGED notQueueVars
    /\ Sent(<<Event(queue, queue)>> \o
            (IF loop[l].element.runner \in ManifestRunners
             THEN <<>>
             ELSE RetireEvents(loop[l].element, "?? MB", queue)))

\* the exception of an awaited runner call leaves initQueue
Throw(l) ==
    /\ loop' = [loop EXCEPT ![l] = OffLoop]
    /\ escaped' = TRUE
    /\ last' = [op |-> "throw", appName |-> loop[l].element.appName, status |-> "null"]
    /\ UNCHANGED <<queue, hasQueue, finished, queueState, log, owed>>

\* await game.getInstallInfo(...) settles: a manifest with a download size,
\* nothing usable, or an exception
InfoReturn(l, info) ==
    /\ loop[l].pc = "awaitInfo"
    /\ ~Busy
    /\ IF info = "throw"
       THEN Throw(l)
       ELSE /\ StartAndDispatch(l,
                   [loop[l].element EXCEPT
                       !.size = IF info = "size" THEN "sized" ELSE "?? MB"],
                   loop[l].queuedElements)
            /\ UNCHANGED <<escaped, log>>
    /\ UNCHANGED notQueueVars
    /\ Sent(IF info = "throw"
            THEN <<>>
            ELSE RetireEvents(loop[l].element,
                              IF info = "size" THEN "sized" ELSE "?? MB",
                              loop[l].queuedElements))

\* the awaited install / update / download settles with a status or an exception
OpReturn(l, result) ==
    /\ loop[l].pc = "awaitOp"
    /\ ~Busy
    /\ IF result = "throw"
       THEN Throw(l)
       ELSE /\ Retire(l, loop[l].element, result, queue, "retire")
            /\ UNCHANGED <<escaped, log>>
    /\ UNCHANGED notQueueVars
    /\ Sent(IF result = "throw"
            THEN <<>>
            ELSE RemoveEvents(queue, loop[l].element.appName))

InfoResults == {"size", "nosize", "throw"}
OpResults == DMStatus \cup {"throw"}

\* addToQueue, removeFromQueue and the loop they start: the public contract
Next ==
    \/ \E element \in Inputs \cup {NoElement} : AddToQueue(element)
    \/ \E appName \in AppNames : RemoveFromQueue(appName)
    \/ \E l \in Loops : LoopTop(l)
    \/ \E l \in Loops, info \in InfoResults : InfoReturn(l, info)
    \/ \E l \in Loops, result \in OpResults : OpReturn(l, result)

Spec == Init /\ [][Next]_vars

\* the same with the exported initQueue called from outside as well
NextInit ==
    \/ \E element \in Inputs : Len(log) < MaxAddsInit /\ AddToQueue(element)
    \/ \E appName \in AppNames : RemoveFromQueue(appName)
    \/ InitQueue
    \/ \E l \in Loops : LoopTop(l)
    \/ \E l \in Loops, info \in InfoResults : InfoReturn(l, info)
    \/ \E l \in Loops, result \in OpResults : OpReturn(l, result)

SpecInit == Init /\ [][NextInit]_vars

\* tasks with distinct appNames enqueued one after another, no remove, every
\* runner call returns
NextEndToEnd ==
    \/ \E element \in Inputs :
          /\ \A i \in DOMAIN log : log[i] # element.appName
          /\ AddToQueue(element)
    \/ \E l \in Loops : LoopTop(l)
    \/ \E l \in Loops, info \in InfoResults \ {"throw"} : InfoReturn(l, info)
    \/ \E l \in Loops, result \in DMStatus : OpReturn(l, result)

SpecEndToEnd == Init /\ [][NextEndToEnd]_vars

\* Every runner with every operation type, for the dispatch of lines 101-120
Runners == {"gog", "legendary", "hyperplay", "sideload"}

OperationTypes == {"install", "update", "download"}

DispatchInputs ==
    {Element(a, r, t) : a \in {"G1", "G2"}, r \in Runners, t \in OperationTypes}

NextDispatch ==
    \/ \E element \in DispatchInputs :
          /\ Len(log) < MaxAddsDispatch
          /\ AddToQueue(element)
    \/ \E l \in Loops : LoopTop(l)
    \/ \E l \in Loops, info \in InfoResults : InfoReturn(l, info)
    \/ \E l \in Loops, result \in OpResults : OpReturn(l, result)

SpecDispatch == Init /\ [][NextDispatch]_vars

\* The process after it stopped and started again with what the store holds in
\* `q`: the module is loaded anew, so queueState is 'idle' (line 62) and no
\* initQueue invocation exists; the downloadManager store (lines 50-53) is on
\* disk and keeps what was last written to it.  `appName` is the task whose
\* removal was under way when the process stopped, "null" if none was.
Restarted(q, has, fin, appName) ==
    /\ queue' = q
    /\ hasQueue' = has
    /\ finished' = fin
    /\ queueState' = "idle"
    /\ loop' = [l \in Loops |-> OffLoop]
    /\ escaped' = FALSE
    /\ UNCHANGED notQueueVars
    /\ Sent(<<>>)
    /\ last' = [op |-> "restart", appName |-> appName, status |-> "null"]
    /\ UNCHANGED <<log, owed>>

\* The process stops while no handler is writing to the store: between two
\* handlers, or with a runner call in flight.
Restart == Restarted(queue, hasQueue, finished, "null")

\* The process stops inside removeFromQueue(appName), called from outside,
\* between `delete('queue')` (line 181) and `set('queue', elements)` (line
\* 182): the store has no 'queue' key when it starts again.
StopInRemove(appName) ==
    /\ ~Busy
    /\ appName # ""
    /\ hasQueue
    /\ FindIndex(queue, appName) > 0
    /\ Restarted(<<>>, FALSE, finished, appName)

\* The process stops after the operation of loop l returned `result`, in the
\* retiring lines 122-124: after addToFinished (line 123) wrote the history
\* and before removeFromQueue wrote anything, or inside removeFromQueue
\* between lines 181 and 182.
StopInRetire(l, result, point) ==
    /\ loop[l].pc = "awaitOp"
    /\ ~Busy
    /\ LET done == [loop[l].element EXCEPT !.endTime = "set"]
           fin == AddToFinished(finished, done, result)
       IN  IF point = "afterFinished"
           THEN Restarted(queue, hasQueue, fin, done.appName)
           ELSE /\ done.appName # ""
                /\ FindIndex(queue, done.appName) > 0
                /\ Restarted(<<>>, FALSE, fin, done.appName)

StopPoints == {"afterFinished", "afterDelete"}

\* initQueue() called when the process has started
InitQueueAtStart ==
    /\ last.op = "restart"
    /\ InitQueue

NextRestart ==
    \/ \E element \in Inputs :
          /\ Len(log) < MaxAddsRestart
          /\ AddToQueue(element)
    \/ \E appName \in AppNames : RemoveFromQueue(appName)
    \/ \E l \in Loops : LoopTop(l)
    \/ \E l \in Loops, info \in InfoResults : InfoReturn(l, info)
    \/ \E l \in Loops, result \in OpResults : OpReturn(l, result)
    \/ Restart
    \/ \E appName \in AppNames : StopInRemove(appName)
    \/ \E l \in Loops, result \in DMStatus, point \in StopPoints :
          StopInRetire(l, result, point)
    \/ InitQueueAtStart

SpecRestart == Init /\ [][NextRestart]_vars

\* What the awaited operation can resolve to when its result may lack the
\* status field that line 116 destructures
StatusResults == DMStatus \cup {"undefined"}

NextStatus ==
    \/ \E element \in Inputs : AddToQueue(element)
    \/ \E l \in Loops : LoopTop(l)
    \/ \E l \in Loops, info \in InfoResults \ {"throw"} : InfoReturn(l, info)
    \/ \E l \in Loops, result \in StatusResults : OpReturn(l, result)

SpecStatus == Init /\ [][NextStatus]_vars

\* The appId values of addGameToLibrary: two listed games and the id of
\* test.json (line 257), for which no request is made
TestId == "63f685cd069b92b74c6d5778"

AppIds == {"A", "B", TestId}

Calls == 1..MaxCalls

InLibrary(lib, appId) == \E i \in DOMAIN lib : lib[i] = appId

\* line 311: hpLibraryStore.set('games', [...currentLibrary, gameInfo])
StoredLibrary(currentLibrary, appId) == Append(currentLibrary, appId)

\* addGameToLibrary(appId) from its call to the await of line 258, or to its
\* end when the game is in the library already or is the test.json game
AddGameToLibrary(appId) ==
    /\ Len(adding) < MaxCalls
    /\ LET currentLibrary == library
       IN  IF InLibrary(currentLibrary, appId)
           THEN /\ adding' = Append(adding,
                       [pc |-> "present", appId |-> appId, currentLibrary |-> <<>>])
                /\ library' = library
           ELSE IF appId = TestId
           THEN /\ adding' = Append(adding,
                       [pc |-> "stored", appId |-> appId, currentLibrary |-> <<>>])
                /\ library' = StoredLibrary(currentLibrary, appId)
           ELSE /\ adding' = Append(adding,
                       [pc |-> "await", appId |-> appId,
                        currentLibrary |-> currentLibrary])
                /\ library' = library
    /\ UNCHANGED <<queueVars, questVars>>

\* the listings request of line 258 of call c settles: with the release, or
\* with an exception that leaves addGameToLibrary
ListingsReturn(c, res) ==
    /\ c \in DOMAIN adding
    /\ adding[c].pc = "await"
    /\ IF res = "throw"
       THEN /\ adding' = [adding EXCEPT ![c] =
                       [pc |-> "failed", appId |-> adding[c].appId,
                        currentLibrary |-> <<>>]]
            /\ library' = library
       ELSE /\ adding' = [adding EXCEPT ![c] =
                       [pc |-> "stored", appId |-> adding[c].appId,
                        currentLibrary |-> <<>>]]
            /\ library' = StoredLibrary(adding[c].currentLibrary, adding[c].appId)
    /\ UNCHANGED <<queueVars, questVars>>

ListingsResults == {"release", "throw"}

NextLibrary ==
    \/ \E appId \in AppIds : AddGameToLibrary(appId)
    \/ \E c \in Calls, res \in ListingsResults : ListingsReturn(c, res)

SpecLibrary == Init /\ [][NextLibrary]_vars

\* reward_type values: the three on-chain types, the two off-chain ones, and
\* one the switch of lines 379-393 does not know
OnChainTypes == {"ERC1155", "ERC721", "ERC20"}

RewardTypes == {"ERC20", "POINTS", "EXTERNAL-TASKS", "UNKNOWN"}

\* A reward with what rewardTypeClaimEnabled says of its type (line 355); the
\* record of lines 127-133 has no entry for a type outside the five known
Rewards ==
    {r \in [reward_type : RewardTypes, claimable : BOOLEAN] :
        r.reward_type = "UNKNOWN" => ~r.claimable}

RewardLists == UNION {[1..n -> Rewards] : n \in 1..MaxRewards}

Track(event, i) == Append(tracked, [event |-> event, reward |-> i])

\* claimRewards(rewards) is called: selectedQuestId is a number or null, the
\* wallet is connected or not
ClaimRewards(rewards, quest, wallet) ==
    /\ claim.pc = "idle"
    /\ claim' = [pc |-> "next", rewards |-> rewards, i |-> 1, wallet |-> wallet,
                 quest |-> quest]
    /\ UNCHANGED <<tracked, completed, queueVars, libraryVars>>

\* The reward after reward_i, reached after 'Reward Claim Success' was tracked
\* for reward_i (lines 398-401)
Succeed ==
    /\ tracked' = Track("Reward Claim Success", claim.i)
    /\ claim' = [claim EXCEPT !.pc = "next", !.i = claim.i + 1]

\* catch (err) { throw new ClaimError(...) } of lines 394-396
Fail ==
    /\ claim' = [claim EXCEPT !.pc = "failed"]
    /\ UNCHANGED <<tracked, completed>>

\* One pass of the for loop of line 354 up to its first pending await.
\* `early` is how mintOnChainReward ends before its first await (lines
\* 285-296): it throws for a missing quest id or chain id, returns when no
\* wallet is connected, or goes on.
NextReward(early) ==
    /\ claim.pc = "next"
    /\ IF claim.i > Len(claim.rewards)
       THEN /\ claim' = [claim EXCEPT !.pc = "done"]
            /\ UNCHANGED <<tracked, completed>>
       ELSE LET reward_i == claim.rewards[claim.i]
            IN  IF ~claim.quest \/ ~reward_i.claimable
                THEN /\ claim' = [claim EXCEPT !.i = claim.i + 1]
                     /\ UNCHANGED <<tracked, completed>>
                ELSE IF reward_i.reward_type \in OnChainTypes
                THEN IF early = "throw"
                     THEN /\ tracked' = Track("Reward Claim Started", claim.i)
                          /\ claim' = [claim EXCEPT !.pc = "failed"]
                          /\ UNCHANGED completed
                     ELSE IF ~claim.wallet
                     THEN /\ tracked' =
                                Append(Track("Reward Claim Started", claim.i),
                                       [event |-> "Reward Claim Success",
                                        reward |-> claim.i])
                          /\ claim' = [claim EXCEPT !.i = claim.i + 1]
                          /\ UNCHANGED completed
                     ELSE /\ tracked' = Track("Reward Claim Started", claim.i)
                          /\ claim' = [claim EXCEPT !.pc = "awaitBalance"]
                          /\ UNCHANGED completed
                ELSE IF reward_i.reward_type \in {"POINTS", "EXTERNAL-TASKS"}
                THEN /\ tracked' = Track("Reward Claim Started", claim.i)
                     /\ claim' = [claim EXCEPT !.pc = "awaitMutation"]
                     /\ UNCHANGED completed
                ELSE /\ tracked' =
                           Append(Track("Reward Claim Started", claim.i),
                                  [event |-> "Reward Claim Success",
                                   reward |-> claim.i])
                     /\ claim' = [claim EXCEPT !.i = claim.i + 1]
                     /\ UNCHANGED completed
    /\ UNCHANGED <<queueVars, libraryVars>>

\* mintOnChainReward lines 298-320: switchChainAsync, the gas estimation and
\* getBalance have settled; `res` is an exception, a balance below the gas
\* needed (the function returns), or a sufficient balance
BalanceReturn(res) ==
    /\ claim.pc = "awaitBalance"
    /\ IF res = "throw" THEN Fail
       ELSE IF res = "insufficient" THEN Succeed /\ UNCHANGED completed
       ELSE /\ claim' = [claim EXCEPT !.pc = "awaitMint"]
            /\ UNCHANGED <<tracked, completed>>
    /\ UNCHANGED <<queueVars, libraryVars>>

\* mintOnChainReward lines 330-350: getQuestRewardSignature, mintReward and
\* confirmClaimMutation have settled, with an exception or with the reward
\* minted and confirmed
MintReturn(res) ==
    /\ claim.pc = "awaitMint"
    /\ IF res = "throw" THEN Fail
       ELSE Succeed /\ completed' = completed \cup {claim.i}
    /\ UNCHANGED <<queueVars, libraryVars>>

\* claimPointsMutation / completeTaskMutation of lines 385 and 388 settled
MutationReturn(res) ==
    /\ claim.pc = "awaitMutation"
    /\ IF res = "throw" THEN Fail
       ELSE Succeed /\ completed' = completed \cup {claim.i}
    /\ UNCHANGED <<queueVars, libraryVars>>

NextQuest ==
    \/ \E rewards \in RewardLists, quest \in BOOLEAN, wallet \in BOOLEAN :
          ClaimRewards(rewards, quest, wallet)
    \/ \E early \in {"throw", "go"} : NextReward(early)
    \/ \E res \in {"throw", "insufficient", "enough"} : BalanceReturn(res)
    \/ \E res \in {"throw", "confirmed"} : MintReturn(res)
    \/ \E res \in {"throw", "settled"} : MutationReturn(res)

SpecQuest == Init /\ [][NextQuest]_vars

TypeOK ==
    /\ queueState \in {"idle", "running"}
    /\ hasQueue \in BOOLEAN
    /\ \A l \in Loops : loop[l].pc \in {"off", "top", "awaitInfo", "awaitOp"}
    /\ \A l \in Loops :
          loop[l].call \in {"none", "getInstallInfo", "install", "update", "download"}

Alive == {l \in Loops : loop[l].pc # "off"}

InFlight == {l \in Loops : loop[l].pc = "awaitOp"}

HasEntry(fin, appName, status) ==
    \E i \in DOMAIN fin : fin[i].appName = appName /\ fin[i].status = status

NoDuplicate(s) == \A i, j \in DOMAIN s : i # j => s[i].appName # s[j].appName

\* C1: at any instant at most one processing loop is active and at most one
\* runner operation is in flight, also when the exported initQueue is called
\* while a loop is suspended.
C1_AtMostOneActive ==
    /\ Cardinality(Alive) <= 1
    /\ Cardinality(InFlight) <= 1

\* C2: when the dispatched operation returns 'error' or 'abort', the task is
\* in Finished history with that status, it is no longer in the pending queue,
\* and the loop stands at the next head, or has gone idle when none remains.
C2_FailedTaskRetired ==
    (last.op = "retire" /\ last.status \in {"error", "abort"}) =>
        /\ HasEntry(finished, last.appName, last.status)
        /\ last.appName \notin Names(queue)
        /\ IF queue = <<>>
           THEN queueState = "idle" /\ Alive = {}
           ELSE \E l \in Loops : loop[l].pc = "top" /\ loop[l].element = Head(queue)

\* C3: a runner call that raises never escapes the loop: the task gets status
\* 'error' in Finished history and is retired, and the manager is never left
\* 'running' without a loop.
C3_FailureNeverEscapes ==
    /\ ~escaped
    /\ last.op = "throw" =>
          /\ HasEntry(finished, last.appName, "error")
          /\ last.appName \notin Names(queue)
    /\ queueState = "running" => Alive # {}

\* C4: with distinct appNames enqueued one after another, no remove and every
\* runner call returning, after each enqueue the pending queue holds every
\* enqueued task that is not finished yet, in enqueue order, and once the
\* manager is idle again the pending queue is empty and Finished history holds
\* exactly one entry per enqueued appName.
C4_EndToEnd ==
    /\ last.op \in {"addAppend", "addReplace"} =>
          [i \in DOMAIN queue |-> queue[i].appName] =
              SelectSeq(log,
                        LAMBDA a : a \notin Names(finished))
    /\ (queueState = "idle" /\ Alive = {}) =>
          /\ queue = <<>>
          /\ Len(finished) = Len(log)
          /\ Names(finished) = {log[i] : i \in DOMAIN log}

\* C5: no two tasks of the persisted pending queue have the same appName.
C5_NoDuplicateAppName == NoDuplicate(queue)

C5_Witness ==
    /\ last.op = "addReplace"
    /\ Len(queue) >= 2
    /\ queue[2].appName = last.appName

C7_StrictFifo ==
    \A l \in Loops :
        loop[l].pc = "awaitOp" =>
            /\ queue # <<>>
            /\ Head(queue) = loop[l].element
            /\ \A i, j \in DOMAIN log :
                  (i < j /\ log[j] = loop[l].element.appName) =>
                      log[i] \in Names(finished)

\* C8: a retired task has exactly one entry in Finished history, carrying the
\* status of its operation; an entry of the same appName is overwritten in
\* place, the entries of other appNames stay as they were, and Finished
\* history never holds an appName twice.
C8_OneFinishedEntryPerAppName ==
    [][last'.op \in {"retire", "unsupported"} =>
          /\ NoDuplicate(finished')
          /\ HasEntry(finished', last'.appName, last'.status)
          /\ Len(finished') =
                IF last'.appName \in Names(finished)
                THEN Len(finished) ELSE Len(finished) + 1
          /\ \A i \in DOMAIN finished :
                IF finished[i].appName = last'.appName
                THEN finished'[i].appName = last'.appName
                ELSE finished'[i] = finished[i]]_vars

C8_Witness ==
    /\ last.op = "retire"
    /\ Len(finished) = 2
    /\ finished[1].appName = last.appName
    /\ finished[1].status = "abort"

\* C9: addToQueue with a missing task or an empty appName changes nothing: not
\* the pending queue, Finished history or the manager state, and no loop is
\* started.
C9_InvalidTaskRejected ==
    [][\A element \in Inputs \cup {NoElement} :
          (AddToQueue(element) /\ (element = NoElement \/ element.appName = "")) =>
              UNCHANGED <<queue, hasQueue, finished, queueState, loop>>]_vars

\* C10: when the loop takes the last task out of the pending queue the
\* manager is idle; an addToQueue leaves it running; and a task enqueued into
\* the idle manager has been retired into Finished history by the time no
\* loop is active.
C10_IdleThenRestart ==
    /\ (last.op \in {"retire", "unsupported"} /\ queue = <<>>) => queueState = "idle"
    /\ last.op \in {"addAppend", "addReplace"} => queueState = "running"
    /\ (Alive = {}) =>
          /\ queueState = "idle"
          /\ owed = {}

\* C11: removeFromQueue for an appName that is not pending leaves the pending
\* queue and Finished history as they were, and so does the removal step of
\* the loop when its task was taken out of the queue while it was processed:
\* the queue stays as it is and only the task's own Finished entry is written.
C11_RemoveAbsentIsNoOp ==
    [][/\ last'.op \in {"removeFound", "removeAbsent"} =>
              \/ /\ queue' = queue
                 /\ finished' = finished
                 /\ UNCHANGED <<queueState, loop, escaped>>
              \/ \A appName \in AppNames :
                    appName \in Names(queue) \/ ~RemoveFromQueue(appName)
       /\ last'.op = "retire" =>
              \A l \in Loops, result \in DMStatus :
                  (/\ loop[l].element.appName \notin Names(queue)
                   /\ OpReturn(l, result)) =>
                      /\ queue' = queue
                      /\ \A i \in DOMAIN finished :
                            finished[i].appName # loop[l].element.appName =>
                                finished'[i] = finished[i]]_vars

C11_Witness ==
    /\ last.op = "removeAbsent"
    /\ queue # <<>>
    /\ "" \notin Names(queue)
    /\ finished # <<>>
    /\ InFlight # {}

\* C12: removeFromQueue for an appName that is pending takes exactly that one
\* entry out, keeps every other pending task unchanged and in the same
\* relative order, persists the result, and leaves Finished history and the
\* manager state as they were.
C12_RemovePresentRemovesOne ==
    [][\A appName \in AppNames :
          (RemoveFromQueue(appName) /\ appName \in Names(queue)) =>
              /\ queue' = SelectSeq(queue, LAMBDA el : el.appName # appName)
              /\ Len(queue') = Len(queue) - 1
              /\ hasQueue'
              /\ finished' = finished
              /\ queueState' = queueState]_vars

TableOperation(runner, type) ==
    CASE runner \in {"gog", "legendary"} /\ type = "install" -> "install"
      [] runner \in {"gog", "legendary"} /\ type = "update" -> "update"
      [] runner = "hyperplay" -> "download"
      [] OTHER -> "none"

\* C14: the operation the loop has in flight is the one the table gives the
\* task's (runner, type) pair: install or update for a manifest-based runner
\* with that type, download for 'hyperplay' with any type; a task of any other
\* pair is retired with status 'error' without an operation; and the status
\* recorded for a task whose operation returned is the one returned.
C14_DispatchByRunnerAndType ==
    /\ \A l \in Loops :
          loop[l].pc = "awaitOp" =>
              /\ loop[l].call \in {"install", "update", "download"}
              /\ loop[l].call =
                     TableOperation(loop[l].element.runner, loop[l].element.type)
    /\ last.op = "unsupported" =>
          \E i \in DOMAIN finished :
              /\ finished[i].appName = last.appName
              /\ finished[i].status = "error"
              /\ TableOperation(finished[i].runner, finished[i].type) = "none"
    /\ last.op = "retire" =>
          \E i \in DOMAIN finished :
              /\ finished[i].appName = last.appName
              /\ finished[i].status = last.status
              /\ TableOperation(finished[i].runner, finished[i].type) # "none"

C14_Witness ==
    /\ last.op = "retire"
    /\ \E i \in DOMAIN finished :
          /\ finished[i].appName = last.appName
          /\ finished[i].runner = "hyperplay"
          /\ finished[i].type = "install"
          /\ finished[i].status = "abort"
    /\ \E i \in DOMAIN finished :
          /\ finished[i].runner = "legendary"
          /\ finished[i].type = "download"
          /\ finished[i].status = "error"

\* C15: for a task whose (runner, type) pair is not in the dispatch table the
\* loop has no runner call in flight at any time, neither getInstallInfo nor
\* install, update or download; it records status 'error' and goes on with
\* the next pending task, or ends idle when there is none.
C15_UnsupportedPairNoRunnerCall ==
    /\ \A l \in Loops :
          loop[l].call # "none" =>
              TableOperation(loop[l].element.runner, loop[l].element.type) # "none"
    /\ last.op = "unsupported" =>
          /\ HasEntry(finished, last.appName, "error")
          /\ IF queue = <<>>
             THEN queueState = "idle" /\ Alive = {}
             ELSE \E l \in Loops :
                      loop[l].pc = "top" /\ loop[l].element = Head(queue)

\* C16: whenever getInstallInfo fails for the head task (it returns nothing
\* or no download size, or it raises), the task's size is the placeholder
\* '?? MB' and the task is still dispatched: the loop is not ended and the
\* task is not dropped because the size could not be looked up.
C16_SizeLookupBestEffort ==
    [][\A l \in Loops, info \in {"nosize", "throw"} :
          InfoReturn(l, info) =>
              /\ loop'[l].pc = "awaitOp"
              /\ loop'[l].element.appName = loop[l].element.appName
              /\ loop'[l].element.size = "?? MB"
              /\ ~escaped']_vars

\* C17: the manager state goes from 'running' to 'idle' only in a step that
\* leaves the persisted queue empty and no runner operation (install, update
\* or download) in flight, whatever the interleaving of addToQueue,
\* removeFromQueue and initQueue calls.
C17_IdleOnlyWhenDrained ==
    [][(queueState = "running" /\ queueState' = "idle") =>
          /\ queue' = <<>>
          /\ InFlight' = {}]_vars

\* C18: the loop's write-back of the head (size and startTime) changes only
\* the head entry: every task that is in the store right before the write,
\* also one that addToQueue added or replaced while the loop was suspended in
\* getInstallInfo, is in the store unchanged and at the same place after it.
C18_WriteBackChangesOnlyHead ==
    [][last'.op = "dispatch" =>
          /\ Len(queue') = Len(queue)
          /\ \A i \in DOMAIN queue :
                i > 1 => (i \in DOMAIN queue' /\ queue'[i] = queue[i])
          /\ queue # <<>> => queue'[1].appName = queue[1].appName]_vars

\* C19: a task that removeFromQueue took out of the pending queue stays out
\* and is not dispatched afterwards unless addToQueue is called for it again:
\* an appName that is not pending becomes pending only by an addToQueue step,
\* and an operation is dispatched only for a task that is pending before the
\* dispatching step.
C19_RemovedStaysRemoved ==
    [][/\ \A a \in AppNames :
              (a \notin Names(queue) /\ a \in Names(queue')) =>
                  last'.op \in {"addAppend", "addReplace"}
       /\ last'.op = "dispatch" => last'.appName \in Names(queue)]_vars

\* C20: a task enqueued while the manager is running is kept until it is
\* processed, also when it replaces the entry of the appName whose operation
\* is in flight: a pending entry that has not been started (no startTime yet)
\* leaves the pending queue only when removeFromQueue takes it out, when
\* addToQueue replaces it, or when the loop starts it, that is dispatches an
\* operation for its parameters or retires it as unsupported.
C20_EnqueuedWhileRunningIsKept ==
    [][\A i \in DOMAIN queue :
          (/\ queue[i].startTime = "unset"
           /\ queueState = "running"
           /\ \A j \in DOMAIN queue' : queue'[j] # queue[i]) =>
              \/ last'.op \in {"removeFound", "addReplace"}
              \/ /\ last'.op = "dispatch"
                 /\ \E l \in Loops :
                       /\ loop'[l].pc = "awaitOp"
                       /\ loop'[l].element.appName = queue[i].appName
                       /\ loop'[l].element.runner = queue[i].runner
                       /\ loop'[l].element.type = queue[i].type
              \/ /\ last'.op = "unsupported"
                 /\ \E k \in DOMAIN finished' :
                       /\ finished'[k].appName = queue[i].appName
                       /\ finished'[k].runner = queue[i].runner
                       /\ finished'[k].type = queue[i].type]_vars

\* C21: every loop iteration retires its head: after the step that records
\* a task in Finished history and removes it, that task is not the head of
\* the persisted pending queue any more, whatever its appName, so each
\* iteration shortens the work left and the loop gets to idle.
C21_IterationRetiresHead ==
    [][last'.op \in {"retire", "unsupported"} =>
          \/ queue' = <<>>
          \/ queue'[1].appName # last'.appName]_vars

\* C22: the queue survives a restart: wherever the process stops, it starts
\* again idle with every task that was pending or in flight still in the
\* persisted queue, in order (but for the one task whose removal was under
\* way); initQueue called then starts processing at its head; and a task in
\* flight leaves the pending queue only by a removeFromQueue call for it or
\* with its Finished entry written.
C22_QueueSurvivesRestart ==
    [][/\ last'.op = "restart" =>
              /\ queueState' = "idle"
              /\ finished' # finished => last'.appName \in Names(finished')
              /\ \/ queue' = queue
                 \/ queue' = SelectSeq(queue, LAMBDA el : el.appName # last'.appName)
       /\ (last.op = "restart" /\ last'.op = "initQueue" /\ queue # <<>>) =>
              /\ queueState' = "running"
              /\ \E l \in Loops :
                    loop'[l].pc = "top" /\ loop'[l].element = Head(queue)
       /\ \A l \in Loops :
              (/\ loop[l].pc = "awaitOp"
               /\ loop[l].element.appName \in Names(queue)
               /\ loop[l].element.appName \notin Names(queue')) =>
                  \/ last'.op = "removeFound"
                  \/ last'.op = "restart" /\ last'.appName = loop[l].element.appName
                  \/ loop[l].element.appName \in Names(finished')]_vars

\* C23: every entry of Finished history has a status among done, error and
\* abort, whether it was pushed as the first entry of its appName or
\* overwrote an earlier one, also when the operation returned no status.
C23_FinishedStatusIsTyped ==
    \A i \in DOMAIN finished : finished[i].status \in DMStatus

\* C24: the payload of every changedDMQueueInformation event that addToQueue,
\* removeFromQueue or the loop sends is the persisted pending queue as it is
\* at the moment the event is sent: no event was ever sent with another
\* payload.
C24_PayloadIsPersistedQueue == ~stale

C24_Witness ==
    /\ last.op = "removeFound"
    /\ queue # <<>>
    /\ InFlight # {}
    /\ ~stale

\* C25: no pending task is stranded: in every state between two handlers, a
\* non-empty persisted pending queue comes with manager state 'running' and
\* with a live processing loop.
C25_NoStrandedTask ==
    (~Busy /\ queue # <<>>) => (queueState = "running" /\ Alive # {})

\* C26: the library never holds two games with the same app_name and never
\* loses a game: whatever the interleaving of addGameToLibrary calls across
\* the listings request, every step keeps the games that are in the library,
\* every appId a call has stored is in the library once, and a call for an
\* appId that is in the library leaves the library as it is.
C26_LibraryKeepsEveryGame ==
    [][/\ \A i, j \in DOMAIN library' : i # j => library'[i] # library'[j]
       /\ \A i \in DOMAIN library : InLibrary(library', library[i])
       /\ \A c \in DOMAIN adding' :
              adding'[c].pc = "stored" => InLibrary(library', adding'[c].appId)
       /\ (Len(adding') > Len(adding) /\ adding'[Len(adding')].pc = "present") =>
              library' = library]_vars

\* C27: claimRewards takes the rewards in list order, one at a time; 'Reward
\* Claim Success' is tracked for a reward only after 'Reward Claim Started'
\* for it and only if its claim was carried out (for an on-chain reward:
\* minted and confirmed), so none is tracked when the wallet is not connected
\* or the balance does not cover the gas; and after a thrown failure nothing
\* more is claimed or tracked.
C27_SuccessOnlyForCompletedClaim ==
    /\ \A j, k \in DOMAIN tracked :
          j < k => tracked[j].reward <= tracked[k].reward
    /\ \A k \in DOMAIN tracked :
          tracked[k].event = "Reward Claim Success" =>
              /\ k > 1
              /\ tracked[k - 1] =
                     [event |-> "Reward Claim Started", reward |-> tracked[k].reward]
              /\ tracked[k].reward \in completed
    /\ claim.pc = "failed" =>
          /\ tracked # <<>>
          /\ tracked[Len(tracked)] =
                 [event |-> "Reward Claim Started", reward |-> claim.i]

====
